---- MODULE Spec2Model ----
(***************************************************************************)
(* The write path of the logos storage engine (src/logos): MemTable,       *)
(* SSTable, Driver and the background persistence task.                    *)
(*                                                                         *)
(* A String is a sequence of byte values; a BTreeMap<String, u32> is the   *)
(* sequence of its <<key, value>> pairs in ascending key order.            *)
(***************************************************************************)
EXTENDS Integers, Sequences, FiniteSets, TLC

\* ------------------------------------------------------------------ bounds

\* The capacity of a MemTable made by MemTable::new() (10_000 in db.rs:6),
\* scaled down so that a table fills within a few writes.
CAPACITY == 2

\* The largest capacity a table is constructed with (with_capacity(n)).
MaxCapacity == 4

\* Calls of write and flush_table per behaviour of the engine.
MaxCalls == 4

\* Keys "1", "10" and "9" (as bytes): their String order differs from the
\* order of the numbers they spell.
Keys == { <<49>>, <<49, 48>>, <<57>> }

Values == { 1, 2 }

\* Option<u32>.
None == <<>>
Some(v) == <<v>>

\* ---------------------------------------------------------- String, BTreeMap

RECURSIVE StrLess(_, _)
\* Ord for String: lexicographic on bytes, a proper prefix first.
StrLess(a, b) ==
    IF a = <<>> THEN b # <<>>
    ELSE IF b = <<>> THEN FALSE
    ELSE IF a[1] # b[1] THEN a[1] < b[1]
    ELSE StrLess(Tail(a), Tail(b))

\* An insert that keeps the value of a present key, as entry().or_insert does.
BTreeInsertKeepOld(m, k, v) ==
    IF \E i \in DOMAIN m : m[i][1] = k
    THEN m
    ELSE LET n == Cardinality({i \in DOMAIN m : StrLess(m[i][1], k)})
         IN  SubSeq(m, 1, n) \o << <<k, v>> >> \o SubSeq(m, n + 1, Len(m))

\* A faulty insert: always appends, as a Vec::push would.
BTreeInsertAppend(m, k, v) == Append(m, <<k, v>>)

\* BTreeMap::insert: replace the value of a present key, otherwise place the
\* pair after every smaller key.
BTreeInsert(m, k, v) ==
    IF \E i \in DOMAIN m : m[i][1] = k
    THEN [i \in DOMAIN m |-> IF m[i][1] = k THEN <<k, v>> ELSE m[i]]
    ELSE LET n == Cardinality({i \in DOMAIN m : StrLess(m[i][1], k)})
         IN  SubSeq(m, 1, n) \o << <<k, v>> >> \o SubSeq(m, n + 1, Len(m))

\* BTreeMap::get.
BTreeGet(m, k) ==
    IF \E i \in DOMAIN m : m[i][1] = k
    THEN LET i == CHOOSE j \in DOMAIN m : m[j][1] = k IN Some(m[i][2])
    ELSE None

\* ------------------------------------------------------------------ MemTable

\* A MemTable is [items, size, capacity]. capacity is the constant CAPACITY
\* of db.rs:6 for a table made by new(), and what with_capacity was given
\* otherwise.
\* MemTable::new().
MemTableNew == [items |-> <<>>, size |-> 0, capacity |-> CAPACITY]

\* MemTable::with_capacity(n), used by driver.rs:60.
MemTableWithCapacity(n) == [items |-> <<>>, size |-> 0, capacity |-> n]

\* MemTable::at_capacity(), used by driver.rs:21.
AtCapacity(m) == m.size = m.capacity

\* MemTable::write as the Driver calls it (no result): insert, size += 1.
MemTableWrite(m, k, v) ==
    [m EXCEPT !.items = BTreeInsert(@, k, v), !.size = @ + 1]

\* A write that a full table accepts when it only replaces a stored value.
MemTableWriteCheckedOverwrite(m, k, v) ==
    IF m.size = m.capacity /\ BTreeGet(m.items, k) = None
    THEN [table |-> m, result |-> "MemTableFull"]
    ELSE [table |-> [m EXCEPT !.items = BTreeInsert(@, k, v),
                              !.size = IF m.size = m.capacity THEN @ ELSE @ + 1],
          result |-> "Ok"]

\* MemTable::write of db.rs: a table whose size is its capacity (the constant
\* CAPACITY there) rejects the write; otherwise insert, size += 1.
MemTableWriteChecked(m, k, v) ==
    IF m.size = m.capacity
    THEN [table |-> m, result |-> "MemTableFull"]
    ELSE [table |-> [m EXCEPT !.items = BTreeInsert(@, k, v), !.size = @ + 1],
          result |-> "Ok"]

\* MemTable::read.
MemTableRead(m, k) == BTreeGet(m.items, k)

\* MemTable::items(): one Entry per pair, in the map's iteration order.
MemTableItems(m) ==
    [i \in DOMAIN m.items |-> [key |-> m.items[i][1], value |-> m.items[i][2]]]

\* ------------------------------------------------------------------- SSTable

\* impl From<&MemTable> for SSTable.
SSTableFrom(m) == [entries |-> MemTableItems(m)]

RECURSIVE LE(_, _)
\* The w little-endian bytes of n.
LE(n, w) == IF w = 0 THEN <<>> ELSE <<n % 256>> \o LE(n \div 256, w - 1)

RECURSIVE EncodeEntries(_)
\* bincode of the elements of a Vec<Entry>: u64 key length, key bytes, u32.
EncodeEntries(es) ==
    IF es = <<>> THEN <<>>
    ELSE LE(Len(es[1].key), 8) \o es[1].key \o LE(es[1].value, 4)
         \o EncodeEntries(Tail(es))

\* The bytes SSTable::into_bytes returns on success: u64 entry count, entries.
IntoBytes(sst) == LE(Len(sst.entries), 8) \o EncodeEntries(sst.entries)

\* -------------------------------------------------------------------- Driver

\* Driver::new().
DriverNew == [master |-> MemTableNew, offset |-> 0]

\* A flush that allocates no new offset.
FlushTableSameOffset(d, serOk) ==
    LET sst == SSTableFrom(d.master)
        d1 == [d EXCEPT !.master = MemTableNew]
    IN  IF ~serOk
        THEN [driver |-> d1, result |-> "BincodeError", spawned |-> <<>>,
              captured |-> <<sst>>]
        ELSE [driver |-> d1, result |-> "Ok",
              spawned |-> << [offset |-> d.offset, bytes |-> IntoBytes(sst)] >>,
              captured |-> <<sst>>]

\* A flush that installs the new table before it captures the segment.
FlushTableSwapFirst(d, serOk) ==
    LET d1 == [d EXCEPT !.master = MemTableNew]
        sst == SSTableFrom(d1.master)
    IN  IF ~serOk
        THEN [driver |-> d1, result |-> "BincodeError", spawned |-> <<>>,
              captured |-> <<sst>>]
        ELSE [driver |-> [d1 EXCEPT !.offset = @ + 1], result |-> "Ok",
              spawned |-> << [offset |-> d.offset, bytes |-> IntoBytes(sst)] >>,
              captured |-> <<sst>>]

\* A flush that allocates the offset and spawns the task before it looks at
\* the result of into_bytes.
FlushTableSpawnFirst(d, serOk) ==
    LET sst == SSTableFrom(d.master)
        d1 == [d EXCEPT !.master = MemTableNew, !.offset = @ + 1]
    IN  [driver |-> d1, result |-> IF serOk THEN "Ok" ELSE "BincodeError",
         spawned |-> << [offset |-> d.offset, bytes |-> IntoBytes(sst)] >>,
         captured |-> <<sst>>]

\* A flush that keeps the flushed table as the active one.
FlushTableKeepTable(d, serOk) ==
    LET sst == SSTableFrom(d.master)
    IN  IF ~serOk
        THEN [driver |-> d, result |-> "BincodeError", spawned |-> <<>>,
              captured |-> <<sst>>]
        ELSE [driver |-> [d EXCEPT !.offset = @ + 1], result |-> "Ok",
              spawned |-> << [offset |-> d.offset, bytes |-> IntoBytes(sst)] >>,
              captured |-> <<sst>>]

\* A flush that reads the offset for the task after it has advanced it.
FlushTableOffsetAfter(d, serOk) ==
    LET sst == SSTableFrom(d.master)
        d1 == [d EXCEPT !.master = MemTableNew]
    IN  IF ~serOk
        THEN [driver |-> d1, result |-> "BincodeError", spawned |-> <<>>,
              captured |-> <<sst>>]
        ELSE [driver |-> [d1 EXCEPT !.offset = @ + 1], result |-> "Ok",
              spawned |-> << [offset |-> d.offset + 1, bytes |-> IntoBytes(sst)] >>,
              captured |-> <<sst>>]

\* Driver::flush_table on driver d; serOk is whether into_bytes succeeds.
\* The result names the driver afterwards, the value returned, the tasks
\* spawned (offset, bytes) and the segments captured.
FlushTable(d, serOk) ==
    LET sst == SSTableFrom(d.master)
        d1 == [d EXCEPT !.master = MemTableNew]
    IN  IF ~serOk
        THEN [driver |-> d1, result |-> "BincodeError", spawned |-> <<>>,
              captured |-> <<sst>>]
        ELSE [driver |-> [d1 EXCEPT !.offset = @ + 1], result |-> "Ok",
              spawned |-> << [offset |-> d.offset, bytes |-> IntoBytes(sst)] >>,
              captured |-> <<sst>>]

\* A write that never flushes.
DriverWriteNoFlush(d, k, v, serOk) ==
    [driver |-> [d EXCEPT !.master = MemTableWrite(@, k, v)],
     result |-> "Ok", spawned |-> <<>>, captured |-> <<>>]

\* A write that inserts before it checks the capacity.
DriverWriteInsertFirst(d, k, v, serOk) ==
    LET d1 == [d EXCEPT !.master = MemTableWrite(@, k, v)]
    IN  IF AtCapacity(d.master)
        THEN FlushTable(d1, serOk)
        ELSE [driver |-> d1, result |-> "Ok", spawned |-> <<>>,
              captured |-> <<>>]

\* A write that reports a full table instead of flushing it, as
\* MemTable::write of db.rs does.
DriverWriteRejectFull(d, k, v, serOk) ==
    IF AtCapacity(d.master)
    THEN [driver |-> d, result |-> "MemTableFull", spawned |-> <<>>,
          captured |-> <<>>]
    ELSE [driver |-> [d EXCEPT !.master = MemTableWrite(@, k, v)],
          result |-> "Ok", spawned |-> <<>>, captured |-> <<>>]

\* A write that flushes the table whatever its size.
DriverWriteFlushAlways(d, k, v, serOk) ==
    LET f == FlushTable(d, serOk)
    IN  IF f.result # "Ok"
        THEN f
        ELSE [f EXCEPT !.driver.master = MemTableWrite(@, k, v)]

\* Driver::write on driver d.
DriverWrite(d, k, v, serOk) ==
    IF AtCapacity(d.master)
    THEN LET f == FlushTable(d, serOk)
         IN  IF f.result # "Ok"
             THEN f
             ELSE [f EXCEPT !.driver.master = MemTableWrite(@, k, v)]
    ELSE [driver |-> [d EXCEPT !.master = MemTableWrite(@, k, v)],
          result |-> "Ok", spawned |-> <<>>, captured |-> <<>>]

\* The join handles of spawned tasks that a Driver keeps: the struct has the
\* fields master and offset only, and flush_table drops the handle.
JoinHandles(d) == {}

\* The output of the spawned task: `let _ = write_sst(..)` drops the result.
TaskOutput(result) == "unit"

RECURSIVE Decimal(_)
\* The decimal digits of n as bytes, as `{}` formats a usize.
Decimal(n) == IF n < 10 THEN <<48 + n>> ELSE Decimal(n \div 10) \o <<48 + (n % 10)>>

\* format!("logos/{}.sst", offset), as bytes.
\* A path that does not name the offset: "logos/0.sst" for every segment.
SstPathFixed(off) ==
    <<108, 111, 103, 111, 115, 47>> \o Decimal(0) \o <<46, 115, 115, 116>>

SstPath(off) ==
    <<108, 111, 103, 111, 115, 47>> \o Decimal(off) \o <<46, 115, 115, 116>>

\* write_sst: File::create(path) then write_all(bytes). io is the outcome:
\* "ok", "create_err" (no file), or "write_err" (the file exists and holds
\* the first n bytes only).
WriteSst(files, off, bytes, io, n) ==
    IF io = "create_err" THEN files
    ELSE LET data == IF io = "ok" THEN bytes ELSE SubSeq(bytes, 1, n)
             path == SstPath(off)
         IN  [p \in DOMAIN files \cup {path} |-> IF p = path THEN data ELSE files[p]]

\* --------------------------------------------------------------------- state

\* ------------------------------------------- the vector MemTable (table.rs)

MaxVecWrites == 4

VecNew == [items |-> <<>>, size |-> 0]

VecWrite(m, k, v) ==
    [items |-> Append(m.items, [key |-> k, value |-> v]), size |-> m.size + 1]

Reverse(s) == [i \in 1 .. Len(s) |-> s[Len(s) + 1 - i]]

\* The loop of items(): kvs is what is left of the iteration and acc the
\* vector built so far; an entry is pushed unless acc has its key already.
RECURSIVE VecCollect(_, _)
VecCollect(kvs, acc) ==
    IF kvs = <<>> THEN acc
    ELSE VecCollect(Tail(kvs),
                    IF \E i \in DOMAIN acc : acc[i].key = Head(kvs).key
                    THEN acc
                    ELSE Append(acc, Head(kvs)))

\* An items() that walks the vector from the front.
VecItemsForward(m) == VecCollect(m.items, <<>>)

VecItems(m) == VecCollect(Reverse(m.items), <<>>)

\* --------------------------------------- the tree node (tree.rs, avl.rs)

MaxItem == 6
Items == 1 .. MaxItem

Max(a, b) == IF a >= b THEN a ELSE b

\* BinaryTreeNode::create: a leaf.  left and right are Option<BoxedNode>.
Create(item) == [item |-> item, height |-> 0, left |-> None, right |-> None]

CreateChild(n, item, orientation) ==
    IF orientation = "Left" THEN [n EXCEPT !.left = Some(Create(item))]
                            ELSE [n EXCEPT !.right = Some(Create(item))]

ChildHeights(n) ==
    [lh |-> IF n.left = None THEN -1 ELSE n.left[1].height,
     rh |-> IF n.right = None THEN -1 ELSE n.right[1].height]

UpdateHeight(n) ==
    LET h == ChildHeights(n) IN [n EXCEPT !.height = 1 + Max(h.lh, h.rh)]

RECURSIVE Find(_, _)
Find(n, item) ==
    IF item < n.item THEN (IF n.left = None THEN None ELSE Find(n.left[1], item))
    ELSE IF item > n.item THEN (IF n.right = None THEN None ELSE Find(n.right[1], item))
    ELSE Some(n)

\* ----------------------------------------------------- AVLTree (avl.rs)

Balance(n) ==
    LET h == ChildHeights(n)
    IN  IF h.lh - h.rh <= -2 THEN "RightHeavy"
        ELSE IF h.lh - h.rh >= 2 THEN "LeftHeavy"
        ELSE "Balanced"

\* rotate(direction) on the node self: the node left in self's place and the
\* result.  The names are those of the Left arm; the Right arm is its mirror.
Rotate(self, direction) ==
    IF direction = "Left" THEN
        IF self.right = None THEN [node |-> self, result |-> "RotationError"]
        ELSE LET right0 == self.right[1]
                 self0 == [self EXCEPT !.right = None]               \* take()
                 right1 ==
                     IF right0.left # None
                     THEN LET r_left0 == right0.left[1]
                              \* after the swap `right` holds the grandchild
                              \* and `r_left` the child, its left taken
                              right == r_left0
                              r_left == [right0 EXCEPT !.left = None]
                          IN  [right EXCEPT !.right = Some(r_left)]
                     ELSE right0
                 \* swap(self, right): self is right1, right is self0
                 right2 == UpdateHeight(self0)
             IN  [node |-> [right1 EXCEPT !.left = Some(right2)], result |-> "Ok"]
    ELSE
        IF self.left = None THEN [node |-> self, result |-> "RotationError"]
        ELSE LET left0 == self.left[1]
                 self0 == [self EXCEPT !.left = None]
                 left1 ==
                     IF left0.right # None
                     THEN LET l_right0 == left0.right[1]
                              left == l_right0
                              l_right == [left0 EXCEPT !.right = None]
                          IN  [left EXCEPT !.left = Some(l_right)]
                     ELSE left0
                 left2 == UpdateHeight(self0)
             IN  [node |-> [left1 EXCEPT !.right = Some(left2)], result |-> "Ok"]

\* AVLNode::insert on the node self: the node afterwards and the result.  An
\* error of the child's insert is passed on by `?` before update_height.
RECURSIVE AVLNodeInsert(_, _)
AVLNodeInsert(self, value) ==
    IF value = self.item THEN [node |-> self, result |-> "InsertionError"]
    ELSE LET o == IF value < self.item THEN "Left" ELSE "Right"
             child == IF o = "Left" THEN self.left ELSE self.right
             sub == IF child = None
                    THEN [node |-> Create(value), result |-> "Ok"]
                    ELSE AVLNodeInsert(child[1], value)
             put == IF o = "Left" THEN [self EXCEPT !.left = Some(sub.node)]
                                  ELSE [self EXCEPT !.right = Some(sub.node)]
         IN  IF sub.result # "Ok" THEN [node |-> put, result |-> sub.result]
             ELSE LET n == UpdateHeight(put)
                  IN  IF Balance(n) = "LeftHeavy" THEN Rotate(n, "Right")
                      ELSE IF Balance(n) = "RightHeavy" THEN Rotate(n, "Left")
                      ELSE [node |-> n, result |-> "Ok"]

AVLTreeNew == [root |-> None, size |-> 0]

\* An insert that counts the value before the node has accepted it.
AVLTreeInsertCountFirst(t, value) ==
    IF t.root = None
    THEN [tree |-> [root |-> Some(Create(value)), size |-> t.size + 1], result |-> "Ok"]
    ELSE LET r == AVLNodeInsert(t.root[1], value)
         IN  [tree |-> [root |-> Some(r.node), size |-> t.size + 1], result |-> r.result]

\* AVLTree::insert: the tree afterwards and the result.
AVLTreeInsert(t, value) ==
    IF t.root = None
    THEN [tree |-> [root |-> Some(Create(value)), size |-> t.size + 1], result |-> "Ok"]
    ELSE LET r == AVLNodeInsert(t.root[1], value)
         IN  IF r.result # "Ok"
             THEN [tree |-> [t EXCEPT !.root = Some(r.node)], result |-> r.result]
             ELSE [tree |-> [root |-> Some(r.node), size |-> t.size + 1], result |-> "Ok"]

AVLTreeContains(t, value) ==
    IF t.root = None THEN FALSE ELSE Find(t.root[1], value) # None

AVLTreeHeight(t) == IF t.root = None THEN 0 ELSE t.root[1].height

AVLTreeSize(t) == t.size

\* --------------------------------------------- BinarySearchTree (tree.rs)

\* BinaryTreeNode::insert on the node self: the node afterwards and the
\* result.  An equal item is refused before anything is changed.
RECURSIVE NodeInsert(_, _)
NodeInsert(self, item) ==
    IF item = self.item THEN [node |-> self, result |-> "InsertionError"]
    ELSE LET o == IF item < self.item THEN "Left" ELSE "Right"
             child == IF o = "Left" THEN self.left ELSE self.right
         IN  IF child = None
             THEN [node |-> UpdateHeight(CreateChild(self, item, o)), result |-> "Ok"]
             ELSE LET sub == NodeInsert(child[1], item)
                      put == IF o = "Left" THEN [self EXCEPT !.left = Some(sub.node)]
                                           ELSE [self EXCEPT !.right = Some(sub.node)]
                  IN  IF sub.result # "Ok" THEN [node |-> put, result |-> sub.result]
                      ELSE [node |-> UpdateHeight(put), result |-> "Ok"]

BinarySearchTreeNew == [root |-> None, size |-> 0]

\* An insert that counts the item before the node has accepted it.
BinarySearchTreeInsertCountFirst(t, item) ==
    IF t.root = None
    THEN [tree |-> [root |-> Some(Create(item)), size |-> t.size + 1], result |-> "Ok"]
    ELSE LET r == NodeInsert(t.root[1], item)
         IN  [tree |-> [root |-> Some(r.node), size |-> t.size + 1], result |-> r.result]

\* BinarySearchTree::insert: the tree afterwards and the result.
BinarySearchTreeInsert(t, item) ==
    IF t.root = None
    THEN [tree |-> [root |-> Some(Create(item)), size |-> t.size + 1], result |-> "Ok"]
    ELSE LET r == NodeInsert(t.root[1], item)
         IN  IF r.result # "Ok"
             THEN [tree |-> [t EXCEPT !.root = Some(r.node)], result |-> r.result]
             ELSE [tree |-> [root |-> Some(r.node), size |-> t.size + 1], result |-> "Ok"]

BinarySearchTreeContains(t, item) ==
    IF t.root = None THEN FALSE ELSE Find(t.root[1], item) # None

BinarySearchTreeSize(t) == t.size

\* iter() and into_iter(): kind is "ref" for the TreeRefIterator over a
\* borrowed tree and "owned" for the TreeIterator that takes the tree.
IntoIter(t, kind) == [kind |-> kind, curr |-> t.root, queue |-> <<>>]

\* The `while let` loop of next: walk down the left children from curr,
\* pushing each node at the front of the queue.  The owning iterator takes
\* the left child out of the node it pushes.
RECURSIVE Descend(_, _, _)
Descend(kind, curr, queue) ==
    IF curr = None THEN [curr |-> None, queue |-> queue]
    ELSE LET next == curr[1]
         IN  Descend(kind, next.left,
                     <<IF kind = "owned" THEN [next EXCEPT !.left = None] ELSE next>>
                         \o queue)

\* A next that does not turn to the right child of the node it yields.
TreeIterNextNoRight(it) ==
    LET d == Descend(it.kind, it.curr, it.queue)
    IN  IF d.queue = <<>>
        THEN [iter |-> [it EXCEPT !.curr = None, !.queue = <<>>], item |-> None]
        ELSE [iter |-> [it EXCEPT !.curr = None, !.queue = Tail(d.queue)],
              item |-> Some(Head(d.queue).item)]

\* TreeRefIterator::next and TreeIterator::next: the iterator afterwards and
\* the Option returned.
TreeIterNext(it) ==
    LET d == Descend(it.kind, it.curr, it.queue)
    IN  IF d.queue = <<>>
        THEN [iter |-> [it EXCEPT !.curr = None, !.queue = <<>>], item |-> None]
        ELSE LET next == Head(d.queue)
             IN  [iter |-> [it EXCEPT !.curr = next.right, !.queue = Tail(d.queue)],
                  item |-> Some(next.item)]

VARIABLES
    driver,   \* the Driver: [master, offset]
    tasks,    \* the tasks spawned so far, in spawn order
    sink,     \* the file system: path |-> bytes of the file
    segs,     \* history: the segment of every flush, with the table it saw
    wrote,    \* history: per table, the pairs written to it (last one wins)
    ncalls,   \* history: the number of calls made
    call,     \* the latest call of the caller
    ret,      \* what the latest call returned
    mt,       \* a MemTable of db.rs used on its own
    mlast,    \* history: key |-> the value of the latest write(key, _) on mt
    mrej,     \* history: mt has rejected a write
    vt,       \* a MemTable of db/table.rs
    vhist,    \* history: the latest write of every key, latest key first
    avl,      \* an AVLTree
    ains,     \* history: the values whose insert into avl returned Ok
    adup,     \* history: a value was passed to avl's insert a second time
    bst,      \* a BinarySearchTree
    bins,     \* history: the items whose insert into bst returned Ok
    bit,      \* the iterator over bst that is alive, if any
    bout      \* history: per kind of iterator, what next has returned

engineVars == <<driver, tasks, sink, segs, wrote, ncalls>>
memVars == <<mt, mlast, mrej>>
vecVars == <<vt, vhist>>
avlVars == <<avl, ains, adup>>
bstVars == <<bst, bins, bit, bout>>
libVars == <<vecVars, avlVars, bstVars>>
vars == <<driver, tasks, sink, segs, wrote, ncalls, call, ret, mt, mlast, mrej,
          vt, vhist, avl, ains, adup, bst, bins, bit, bout>>

NoCall == [op |-> "none", key |-> <<>>, value |-> 0]

EngineIdle ==
    /\ driver = DriverNew
    /\ tasks = <<>>
    /\ sink = <<>>
    /\ segs = <<>>
    /\ wrote = << {} >>
    /\ ncalls = 0

MemIdle ==
    /\ mt = MemTableNew
    /\ mlast = [k \in Keys |-> None]
    /\ mrej = FALSE

VecIdle ==
    /\ vt = VecNew
    /\ vhist = <<>>

AvlIdle ==
    /\ avl = AVLTreeNew
    /\ ains = {}
    /\ adup = FALSE

NoIter == [kind |-> "none", curr |-> None, queue |-> <<>>]

NoOutput == [k \in {"ref", "owned"} |-> [items |-> <<>>, done |-> FALSE]]

BstIdle ==
    /\ bst = BinarySearchTreeNew
    /\ bins = {}
    /\ bit = NoIter
    /\ bout = NoOutput

LibIdle == VecIdle /\ AvlIdle /\ BstIdle

\* ------------------------------------------------------------ the engine

\* A Driver as Driver::new() makes it (capacity CAPACITY), or as the literal
\* of driver.rs:59-62 does, with a table of capacity n.
Init ==
    /\ \E n \in 1 .. MaxCapacity :
          driver = [DriverNew EXCEPT !.master = MemTableWithCapacity(n)]
    /\ tasks = <<>>
    /\ sink = <<>>
    /\ segs = <<>>
    /\ wrote = << {} >>
    /\ ncalls = 0
    /\ call = NoCall
    /\ ret = "Ok"
    /\ MemIdle
    /\ LibIdle

\* The history after a call whose outcome is r: pre is the table's items
\* before the call and serOk the outcome of into_bytes.
Record(r, pre, serOk) ==
    /\ tasks' = tasks \o
          [i \in DOMAIN r.spawned |->
              [offset |-> r.spawned[i].offset, bytes |-> r.spawned[i].bytes,
               seg |-> Len(segs) + 1, status |-> "pending"]]
    /\ segs' = segs \o
          [i \in DOMAIN r.captured |->
              [entries |-> r.captured[i].entries, pre |-> pre, ser |-> serOk]]
    /\ ret' = r.result
    /\ driver' = r.driver
    /\ ncalls' = ncalls + 1

Write(k, v, serOk) ==
    /\ ncalls < MaxCalls
    /\ LET r == DriverWrite(driver, k, v, serOk)
           w == IF r.captured = <<>> THEN wrote ELSE Append(wrote, {})
       IN  /\ Record(r, MemTableItems(driver.master), serOk)
           /\ wrote' = IF r.result = "Ok"
                       THEN [w EXCEPT ![Len(w)] =
                               {e \in @ : e.key # k} \cup {[key |-> k, value |-> v]}]
                       ELSE w
    /\ call' = [op |-> "write", key |-> k, value |-> v]
    /\ UNCHANGED <<sink, memVars, libVars>>

\* A flush_table that first joins the tasks spawned before it.
FlushJoinsTasks(serOk) ==
    /\ ncalls < MaxCalls
    /\ \A i \in DOMAIN tasks : tasks[i].status # "pending"
    /\ LET r == FlushTable(driver, serOk)
       IN  /\ Record(r, MemTableItems(driver.master), serOk)
           /\ wrote' = Append(wrote, {})
    /\ call' = [op |-> "flush", key |-> <<>>, value |-> 0]
    /\ UNCHANGED <<sink, memVars, libVars>>

\* A flush_table that goes ahead only while at most one task is in flight.
FlushLimitsTasks(serOk) ==
    /\ ncalls < MaxCalls
    /\ \A i \in DOMAIN tasks : \A j \in DOMAIN tasks :
          (tasks[i].status = "pending" /\ tasks[j].status = "pending") => i = j
    /\ LET r == FlushTable(driver, serOk)
       IN  /\ Record(r, MemTableItems(driver.master), serOk)
           /\ wrote' = Append(wrote, {})
    /\ call' = [op |-> "flush", key |-> <<>>, value |-> 0]
    /\ UNCHANGED <<sink, memVars, libVars>>

Flush(serOk) ==
    /\ ncalls < MaxCalls
    /\ LET r == FlushTable(driver, serOk)
       IN  /\ Record(r, MemTableItems(driver.master), serOk)
           /\ wrote' = Append(wrote, {})
    /\ call' = [op |-> "flush", key |-> <<>>, value |-> 0]
    /\ UNCHANGED <<sink, memVars, libVars>>

\* A task that runs only once its join handle is awaited.
TaskRunWhenJoined(i, io, n) ==
    /\ i \in JoinHandles(driver)
    /\ tasks[i].status = "pending"
    /\ sink' = WriteSst(sink, tasks[i].offset, tasks[i].bytes, io, n)
    /\ tasks' = [tasks EXCEPT ![i].status = io]
    /\ UNCHANGED <<driver, segs, wrote, ncalls, call, ret, memVars, libVars>>

\* The spawned task i runs write_sst.
TaskRun(i, io, n) ==
    /\ tasks[i].status = "pending"
    /\ sink' = WriteSst(sink, tasks[i].offset, tasks[i].bytes, io, n)
    /\ tasks' = [tasks EXCEPT ![i].status = io]
    /\ UNCHANGED <<driver, segs, wrote, ncalls, call, ret, memVars, libVars>>

Next ==
    \/ \E k \in Keys, v \in Values, serOk \in BOOLEAN : Write(k, v, serOk)
    \/ \E serOk \in BOOLEAN : Flush(serOk)
    \/ \E i \in DOMAIN tasks, io \in {"ok", "create_err"} : TaskRun(i, io, 0)
    \/ \E i \in DOMAIN tasks : TaskRun(i, "write_err", 0)

Spec == Init /\ [][Next]_vars

\* The engine with a sink that does not fail, on a runtime that keeps
\* polling every spawned task: the i-th task spawned is not left pending
\* for ever.  Nothing is assumed of the caller, who may stop calling.
TaskOk(i) == i \in DOMAIN tasks /\ TaskRun(i, "ok", 0)

NextLive ==
    \/ \E k \in Keys, v \in Values, serOk \in BOOLEAN : Write(k, v, serOk)
    \/ \E serOk \in BOOLEAN : Flush(serOk)
    \/ \E i \in 1 .. MaxCalls : TaskOk(i)

SpecLive == Init /\ [][NextLive]_vars /\ \A i \in 1 .. MaxCalls : WF_vars(TaskOk(i))

\* ------------------------------------------------- a MemTable on its own

InitMem ==
    /\ EngineIdle
    /\ call = NoCall
    /\ ret = "Ok"
    /\ \E n \in 1 .. MaxCapacity : mt = MemTableWithCapacity(n)
    /\ mlast = [k \in Keys |-> None]
    /\ mrej = FALSE
    /\ LibIdle

MemWrite(k, v) ==
    /\ LET r == MemTableWriteChecked(mt, k, v)
       IN  /\ mt' = r.table
           /\ ret' = r.result
           /\ mrej' = (mrej \/ r.result # "Ok")
    /\ mlast' = [mlast EXCEPT ![k] = Some(v)]
    /\ call' = [op |-> "write", key |-> k, value |-> v]
    /\ UNCHANGED <<engineVars, libVars>>

NextMem == \E k \in Keys, v \in Values : MemWrite(k, v)

SpecMem == InitMem /\ [][NextMem]_vars

\* ------------------------------------------ a vector MemTable on its own

InitVec ==
    /\ EngineIdle
    /\ MemIdle
    /\ call = NoCall
    /\ ret = "Ok"
    /\ vt = VecNew
    /\ vhist = <<>>
    /\ AvlIdle
    /\ BstIdle

VecWriteCall(k, v) ==
    /\ vt.size < MaxVecWrites
    /\ vt' = VecWrite(vt, k, v)
    /\ vhist' = <<[key |-> k, value |-> v]>> \o SelectSeq(vhist, LAMBDA e : e.key # k)
    /\ call' = [op |-> "write", key |-> k, value |-> v]
    /\ UNCHANGED <<engineVars, memVars, ret, avlVars, bstVars>>

NextVec == \E k \in Keys, v \in Values : VecWriteCall(k, v)

SpecVec == InitVec /\ [][NextVec]_vars

\* ------------------------------------------------------------ an AVLTree

InitAvl ==
    /\ EngineIdle
    /\ MemIdle
    /\ VecIdle
    /\ call = NoCall
    /\ ret = "Ok"
    /\ avl = AVLTreeNew
    /\ ains = {}
    /\ adup = FALSE
    /\ BstIdle

AvlInsert(value) ==
    /\ LET r == AVLTreeInsert(avl, value)
       IN  /\ avl' = r.tree
           /\ ret' = r.result
           /\ ains' = IF r.result = "Ok" THEN ains \cup {value} ELSE ains
    /\ adup' = (adup \/ value \in ains)
    /\ call' = [op |-> "insert", key |-> <<>>, value |-> value]
    /\ UNCHANGED <<engineVars, memVars, vecVars, bstVars>>

NextAvl == \E value \in Items : AvlInsert(value)

SpecAvl == InitAvl /\ [][NextAvl]_vars

\* ---------------------------------------------------- a BinarySearchTree

InitBst ==
    /\ EngineIdle
    /\ MemIdle
    /\ VecIdle
    /\ AvlIdle
    /\ call = NoCall
    /\ ret = "Ok"
    /\ bst = BinarySearchTreeNew
    /\ bins = {}
    /\ bit = NoIter
    /\ bout = NoOutput

\* insert needs the tree: no iterator borrows it or has taken it.
BstInsert(item) ==
    /\ bit = NoIter
    /\ LET r == BinarySearchTreeInsert(bst, item)
       IN  /\ bst' = r.tree
           /\ ret' = r.result
           /\ bins' = IF r.result = "Ok" THEN bins \cup {item} ELSE bins
    /\ bout' = NoOutput
    /\ call' = [op |-> "insert", key |-> <<>>, value |-> item]
    /\ UNCHANGED <<engineVars, memVars, vecVars, avlVars, bit>>

\* iter() borrows the tree; into_iter() takes it, and bst then only
\* remembers what the tree was.
BstIter(kind) ==
    /\ bit = NoIter
    /\ bit' = IntoIter(bst, kind)
    /\ bout' = [bout EXCEPT ![kind] = NoOutput[kind]]
    /\ call' = [op |-> kind, key |-> <<>>, value |-> 0]
    /\ UNCHANGED <<engineVars, memVars, vecVars, avlVars, bst, bins, ret>>

BstIterNext ==
    /\ bit # NoIter
    /\ LET r == TreeIterNext(bit)
       IN  /\ bit' = r.iter
           /\ bout' = [bout EXCEPT ![bit.kind] =
                          IF r.item = None THEN [@ EXCEPT !.done = TRUE]
                          ELSE [@ EXCEPT !.items = Append(@, r.item[1])]]
    /\ call' = [op |-> "next", key |-> <<>>, value |-> 0]
    /\ UNCHANGED <<engineVars, memVars, vecVars, avlVars, bst, bins, ret>>

\* The borrowing iterator goes out of scope.
BstIterDrop ==
    /\ bit.kind = "ref"
    /\ bit' = NoIter
    /\ call' = [op |-> "drop", key |-> <<>>, value |-> 0]
    /\ UNCHANGED <<engineVars, memVars, vecVars, avlVars, bst, bins, bout, ret>>

NextBst ==
    \/ \E item \in Items : BstInsert(item)
    \/ \E kind \in {"ref", "owned"} : BstIter(kind)
    \/ BstIterNext
    \/ BstIterDrop

SpecBst == InitBst /\ [][NextBst]_vars

\* ------------------------------------------- one tree, of either kind

\* A program that inserts into one tree, an AVLTree or a BinarySearchTree.
InitTree ==
    /\ EngineIdle
    /\ MemIdle
    /\ VecIdle
    /\ AvlIdle
    /\ BstIdle
    /\ call = NoCall
    /\ ret = "Ok"

NextTree ==
    \/ BstIdle /\ \E value \in Items : AvlInsert(value)
    \/ AvlIdle /\ \E item \in Items : BstInsert(item)

SpecTree == InitTree /\ [][NextTree]_vars

\* -------------------------------------------------------------- properties

Range(f) == {f[i] : i \in DOMAIN f}

\* Entries in strictly ascending key order (so no key twice).
StrictlyAscending(es) ==
    \A i \in DOMAIN es : \A j \in DOMAIN es : i < j => StrLess(es[i].key, es[j].key)

Failed(t) == t.status \in {"create_err", "write_err"}

\* The segment of table e was handed to a persistence task.
Submitted(e) == \E i \in DOMAIN tasks : tasks[i].seg = e

\* C1: every pair a write applied is held by the active table or by a
\* segment that was submitted to a persistence task (the last write of a key
\* in one table wins), and nothing was written to a table after its capture.
C1_NoWriteLost ==
    /\ \A e \in DOMAIN wrote : \A w \in wrote[e] :
          \/ e = Len(wrote) /\ MemTableRead(driver.master, w.key) = Some(w.value)
          \/ e < Len(wrote) /\ Submitted(e) /\ w \in Range(segs[e].entries)
    /\ \A e \in DOMAIN segs : wrote[e] \subseteq Range(segs[e].pre)

\* C2: on a fresh engine of capacity N, a write to a table below capacity
\* flushes nothing, the N-th write leaves the table at capacity, and the next
\* write (of a new key, returning Ok) makes exactly one flush whose segment
\* holds the N earlier entries in ascending key order, and leaves exactly the
\* new entry in the active table.
C2_CapacityFlush ==
    [][ (call'.op = "write" /\ ncalls' = ncalls + 1 /\ segs = <<>>
              /\ Len(driver.master.items) = driver.master.size) =>
          LET m == driver.master
              new == [key |-> call'.key, value |-> call'.value]
          IN  IF m.size < m.capacity
              THEN /\ segs' = <<>> /\ tasks' = <<>> /\ driver'.offset = 0
                   /\ driver'.master.size = m.size + 1
                   /\ (m.size + 1 = m.capacity => AtCapacity(driver'.master))
              ELSE (ret' = "Ok" /\ MemTableRead(m, call'.key) = None) =>
                   /\ Len(segs') = 1 /\ Len(tasks') = 1 /\ driver'.offset = 1
                   /\ segs'[1].entries = MemTableItems(m)
                   /\ Len(segs'[1].entries) = m.capacity
                   /\ StrictlyAscending(segs'[1].entries)
                   /\ tasks'[1].bytes = IntoBytes([entries |-> MemTableItems(m)])
                   /\ MemTableItems(driver'.master) = <<new>> ]_vars

\* C2 witness: two writes of distinct keys filled a fresh table of capacity 2
\* and the third write, of a new key, flushed them.
C2_Witness ==
    /\ ncalls = 3 /\ call.op = "write" /\ ret = "Ok"
    /\ Len(segs) = 1 /\ Len(segs[1].entries) = 2
    /\ \A e \in Range(segs[1].entries) : e.key # call.key
    /\ MemTableItems(driver.master) = << [key |-> call.key, value |-> call.value] >>

\* C3: the offset counter starts at 0 and the tasks spawned by successive
\* flushes carry the offsets 0, 1, 2, ...: the counter is the number of
\* offsets handed out and the i-th task holds offset i - 1.
C3_OffsetsSequential ==
    /\ driver.offset = Len(tasks)
    /\ \A i \in DOMAIN tasks : tasks[i].offset = i - 1

\* C3 witness: three flushes have handed out three offsets.
C3_Witness == Len(tasks) = 3 /\ driver.offset = 3

\* C4: the segment a flush captures holds exactly the entries of the active
\* table right before the call, in the table's iteration order (so not the
\* pair of the write that triggered the flush), the task's bytes are its
\* encoding, and neither changes afterwards.
C4_SegmentIsSnapshot ==
    [][ /\ \A i \in DOMAIN segs' : segs'[i].entries = segs'[i].pre
        /\ \A i \in DOMAIN tasks' :
              tasks'[i].bytes = IntoBytes([entries |-> segs'[tasks'[i].seg].pre])
        /\ \A i \in DOMAIN segs : i \in DOMAIN segs' /\ segs'[i] = segs[i]
        /\ \A i \in DOMAIN tasks :
              i \in DOMAIN tasks' /\ tasks'[i].bytes = tasks[i].bytes ]_vars

\* C4 witness: a write flushed a table of two entries, later writes and a
\* second flush followed.
C4_Witness ==
    /\ Len(segs) = 2 /\ Len(segs[1].entries) = 2 /\ Len(segs[2].entries) = 1
    /\ Len(tasks) = 2

\* C5: the outcome of every persistence task is observable by the caller:
\* the driver keeps a handle to join every task, and a failed write_sst is
\* the output of its task.
C5_TaskOutcomeObservable ==
    \A i \in DOMAIN tasks :
        /\ i \in JoinHandles(driver)
        /\ Failed(tasks[i]) => TaskOutput(tasks[i].status) = tasks[i].status

\* C6: when into_bytes fails during a flush, the call (flush_table, or the
\* write that triggered it) returns BincodeError, the pair of the write is
\* not applied, the offset counter is not advanced and no task is spawned.
C6_SerializationError ==
    [][ (Len(segs') = Len(segs) + 1 /\ ~segs'[Len(segs')].ser) =>
          /\ ret' = "BincodeError"
          /\ driver'.offset = driver.offset
          /\ tasks' = tasks
          /\ call'.op = "write" =>
                /\ MemTableRead(driver'.master, call'.key) = None
                /\ driver'.master.size = 0 ]_vars

\* C6 witness: a write to a full table returned BincodeError.
C6_Witness ==
    /\ call.op = "write" /\ ret = "BincodeError"
    /\ segs # <<>> /\ ~segs[Len(segs)].ser /\ segs[Len(segs)].pre # <<>>

\* C7: as long as the table has rejected no write, read(k) is the value of
\* the latest write(k, _) and None for a key never written; and a write to
\* one key leaves read of every other key as it was.
C7_ReadLatest ==
    [][ /\ ~mrej' => \A k \in Keys : MemTableRead(mt', k) = mlast'[k]
        /\ \A k \in Keys :
              k # call'.key => MemTableRead(mt', k) = MemTableRead(mt, k) ]_vars

\* C7 witness: three accepted writes, one of them an overwrite with another
\* value, and a key never written.
C7_Witness ==
    /\ ~mrej /\ mt.size = 3 /\ Len(mt.items) = 2
    /\ \E k \in Keys : mlast[k] = None
    /\ \E i \in DOMAIN mt.items : mt.items[i] = <<call.key, call.value>>

\* C8: the size of a MemTable is the number of distinct keys it stores.
C8_SizeIsKeyCount == mt.size = Cardinality({mt.items[i][1] : i \in DOMAIN mt.items})

\* C9: items() holds one entry per key written to the table, with the key's
\* latest value, in strictly ascending key order; so does every segment.
C9_ItemsSorted ==
    /\ StrictlyAscending(MemTableItems(driver.master))
    /\ Range(MemTableItems(driver.master)) = wrote[Len(wrote)]
    /\ \A i \in DOMAIN segs : StrictlyAscending(segs[i].entries)

\* C9 witness: four writes of three keys, one of them an overwrite, the
\* latest one of the smallest key.
C9_Witness ==
    /\ driver.master.size = 4 /\ Len(driver.master.items) = 3
    /\ call.key = <<49>> /\ call.value = 2
    /\ MemTableItems(driver.master)[1] = [key |-> <<49>>, value |-> 2]

\* C10: the size of the active table, and so the number of keys it stores,
\* never exceeds its capacity.
C10_SizeAtMostCapacity ==
    /\ driver.master.size <= driver.master.capacity
    /\ Len(driver.master.items) <= driver.master.size

\* C10 witness: a write found the table at capacity, flushed it and went
\* into the new table, which later writes filled again.
C10_Witness ==
    /\ Len(segs) = 1 /\ segs[1].pre # <<>> /\ segs[1].ser
    /\ AtCapacity(driver.master)

\* A step that is a call of write or flush_table.
IsCall == ncalls' = ncalls + 1

\* The latest step captured a segment.
Flushed == Len(segs') = Len(segs) + 1

\* C11: right after a flush_table the active table is a new empty table
\* (after a write that flushed, it holds the written pair only); a
\* flush_table of an empty table (the table of a fresh engine, or the one a
\* flush_table just installed) captures a segment of zero entries and, as
\* every flush_table whose into_bytes succeeds, returns Ok.
C11_FlushInstallsEmptyTable ==
    [][ (IsCall /\ Flushed) =>
          /\ call'.op = "flush" =>
                /\ driver'.master.items = <<>> /\ driver'.master.size = 0
                /\ segs'[Len(segs')].ser => ret' = "Ok"
                /\ (ncalls = 0 \/ call.op = "flush") =>
                      segs'[Len(segs')].entries = <<>>
          /\ (call'.op = "write" /\ ret' = "Ok") =>
                /\ driver'.master.size = 1
                /\ MemTableItems(driver'.master) =
                      << [key |-> call'.key, value |-> call'.value] >> ]_vars

\* C11 witness: a write, then two flush_table calls in a row; the second one
\* captured no entry and returned Ok.
C11_Witness ==
    /\ ncalls = 3 /\ call.op = "flush" /\ ret = "Ok"
    /\ Len(segs) = 2 /\ segs[1].entries # <<>> /\ segs[2].entries = <<>>
    /\ wrote[2] = {} /\ Len(tasks) = 2

\* C12: write returns Ok, with the pair applied to the active table, unless
\* into_bytes failed in the flush it triggered; it never returns MemTableFull.
C12_CapacityIsNoError ==
    [][ (IsCall /\ call'.op = "write") =>
          /\ ret' # "MemTableFull"
          /\ \/ /\ ret' = "Ok"
                /\ MemTableRead(driver'.master, call'.key) = Some(call'.value)
             \/ /\ ret' = "BincodeError"
                /\ AtCapacity(driver.master)
                /\ Flushed /\ ~segs'[Len(segs')].ser ]_vars

\* C12 witness: the table was at capacity twice and both writes returned Ok.
C12_Witness ==
    /\ call.op = "write" /\ ret = "Ok" /\ ncalls = 4
    /\ Len(segs) = 2 /\ Len(segs[1].pre) = 1 /\ Len(segs[2].pre) = 2
    /\ driver.master.size = 1

\* C13: no write and no flush_table waits for a persistence task: whatever
\* tasks are pending, every call can be made (within the bound on calls).
C13_CallsDoNotWait ==
    ncalls < MaxCalls =>
        /\ \A b \in BOOLEAN : ENABLED Flush(b)
        /\ \A k \in Keys, v \in Values, b \in BOOLEAN : ENABLED Write(k, v, b)

\* C13 witness: the task of a flushed segment is still pending, the call has
\* returned and two later writes went into the new active table.
C13_Witness ==
    /\ Len(tasks) = 1 /\ tasks[1].status = "pending" /\ sink = <<>>
    /\ call.op = "write" /\ ret = "Ok"
    /\ driver.master.size = 2 /\ ncalls < MaxCalls

\* C14: a call that flushes and returns Ok spawns exactly one task, with the
\* offset the driver had before the call (the counter then advances by one)
\* and the bytes of the segment captured by that call; any other call spawns
\* none; and a task that runs without I/O error writes exactly its bytes to
\* the file named after its offset and touches no other file.
C14_OneTaskPerFlush ==
    [][ /\ IsCall =>
            IF Flushed /\ ret' = "Ok"
            THEN /\ Len(tasks') = Len(tasks) + 1
                 /\ SubSeq(tasks', 1, Len(tasks)) = tasks
                 /\ tasks'[Len(tasks')].offset = driver.offset
                 /\ driver'.offset = driver.offset + 1
                 /\ tasks'[Len(tasks')].bytes =
                       IntoBytes([entries |-> segs'[Len(segs')].entries])
                 /\ tasks'[Len(tasks')].status = "pending"
            ELSE tasks' = tasks
        /\ \A i \in DOMAIN tasks :
              (tasks[i].status = "pending" /\ tasks'[i].status = "ok") =>
                 /\ SstPath(tasks[i].offset) \in DOMAIN sink'
                 /\ sink'[SstPath(tasks[i].offset)] = tasks[i].bytes
                 /\ \A p \in DOMAIN sink' \ {SstPath(tasks[i].offset)} :
                       p \in DOMAIN sink /\ sink'[p] = sink[p] ]_vars

\* C14 witness: two flushes, both tasks have run and written their files.
C14_Witness ==
    /\ Len(tasks) = 2 /\ \A i \in DOMAIN tasks : tasks[i].status = "ok"
    /\ DOMAIN sink = {SstPath(0), SstPath(1)}
    /\ sink[SstPath(1)] = tasks[2].bytes /\ Len(segs[2].entries) = 2

\* C15: items() of the vector table is one entry per key written, with the
\* value of the key's latest write, the key written latest first.
C15_VecItemsLatestFirst ==
    /\ VecItems(vt) = vhist
    /\ \A i \in DOMAIN vhist : \A j \in DOMAIN vhist :
          i # j => vhist[i].key # vhist[j].key
    /\ {e.key : e \in Range(vt.items)} = {e.key : e \in Range(vhist)}

\* A key written first and again last, as in test::items: three entries out
\* of four writes, the rewritten key in front with its new value.
C15_Witness ==
    /\ Len(vt.items) = 4
    /\ vt.items[1].key = vt.items[4].key
    /\ vt.items[1].value # vt.items[4].value
    /\ Len(VecItems(vt)) = 3
    /\ VecItems(vt)[1] = vt.items[4]
    /\ VecItems(vt)[3] = vt.items[2]

\* -------------------------------------------------- properties of trees

RECURSIVE NodeItems(_)
NodeItems(n) ==
    {n.item} \cup (IF n.left = None THEN {} ELSE NodeItems(n.left[1]))
             \cup (IF n.right = None THEN {} ELSE NodeItems(n.right[1]))

RECURSIVE NodeCount(_)
NodeCount(n) ==
    1 + (IF n.left = None THEN 0 ELSE NodeCount(n.left[1]))
      + (IF n.right = None THEN 0 ELSE NodeCount(n.right[1]))

\* The number of edges on the longest path from n down to a leaf.
RECURSIVE Edges(_)
Edges(n) ==
    1 + Max(IF n.left = None THEN -1 ELSE Edges(n.left[1]),
            IF n.right = None THEN -1 ELSE Edges(n.right[1]))

\* n and every node below it.
RECURSIVE Nodes(_)
Nodes(n) ==
    {n} \cup (IF n.left = None THEN {} ELSE Nodes(n.left[1]))
        \cup (IF n.right = None THEN {} ELSE Nodes(n.right[1]))

Ordered(n) ==
    /\ n.left # None => \A x \in NodeItems(n.left[1]) : x < n.item
    /\ n.right # None => \A x \in NodeItems(n.right[1]) : x > n.item

EvenlyHigh(n) ==
    LET l == IF n.left = None THEN -1 ELSE Edges(n.left[1])
        r == IF n.right = None THEN -1 ELSE Edges(n.right[1])
    IN  l - r \in -1 .. 1

HeightStored(n) == n.height = 1 + Max(ChildHeights(n).lh, ChildHeights(n).rh)

\* C16: after insertions of distinct values that all succeeded, the
\* subtrees of every node of the tree differ in height by at most 1.
C16_Balanced ==
    (~adup /\ avl.root # None) => \A n \in Nodes(avl.root[1]) : EvenlyHigh(n)

\* C17: after insertions of distinct values that all succeeded, contains is
\* true of the inserted values and of no other, size is their number and the
\* number of nodes, and every node is above smaller items on its left and
\* larger ones on its right.
C17_AllItemsKept ==
    ~adup =>
        /\ \A x \in Items : AVLTreeContains(avl, x) <=> x \in ains
        /\ AVLTreeSize(avl) = Cardinality(ains)
        /\ AVLTreeSize(avl) = (IF avl.root = None THEN 0 ELSE NodeCount(avl.root[1]))
        /\ avl.root # None => \A n \in Nodes(avl.root[1]) : Ordered(n)

\* C18: height() is the number of edges of the longest path from the root
\* to a leaf, and every node stores 1 + the larger of its children's stored
\* heights, a missing child counting as -1.
C18_HeightIsLongestPath ==
    (~adup /\ avl.root # None) =>
        /\ AVLTreeHeight(avl) = Edges(avl.root[1])
        /\ \A n \in Nodes(avl.root[1]) : HeightStored(n)

\* The items of S in ascending order.
RECURSIVE Ascending(_)
Ascending(S) ==
    IF S = {} THEN <<>>
    ELSE LET m == CHOOSE x \in S : \A y \in S : x <= y
         IN  <<m>> \o Ascending(S \ {m})

\* C19: what the nexts of an iter() or of an into_iter() have returned so
\* far is the start of the inserted items in ascending order, each once,
\* and None was returned only after all of them.
C19_IterAscending ==
    \A k \in {"ref", "owned"} :
        /\ Len(bout[k].items) <= Cardinality(bins)
        /\ bout[k].items = SubSeq(Ascending(bins), 1, Len(bout[k].items))
        /\ bout[k].done => Len(bout[k].items) = Cardinality(bins)

\* Both iterators have run to None over a tree of four items whose
\* root has two children, one of them with a child on its inner side.
C19_Witness ==
    /\ bout["ref"].done /\ bout["owned"].done
    /\ bout["ref"].items = bout["owned"].items
    /\ Len(bout["owned"].items) = 4
    /\ bst.root[1].left # None /\ bst.root[1].right # None
    /\ bst.root[1].left[1].right # None

\* C20: size() is the number of items whose insert returned Ok, and
\* contains is true of exactly those items.
C20_SizeAndContains ==
    /\ BinarySearchTreeSize(bst) = Cardinality(bins)
    /\ \A x \in Items : BinarySearchTreeContains(bst, x) <=> x \in bins
    /\ bins = {} => BinarySearchTreeSize(bst) = 0

\* An insert of an item already in a tree of three was refused.
C20_Witness ==
    /\ ret = "InsertionError"
    /\ call.op = "insert"
    /\ call.value \in bins
    /\ BinarySearchTreeSize(bst) = 3
    /\ bst.root[1].height = 2

\* C21: a write flushes exactly when the active table is at capacity as the
\* call is made; a write to a table below capacity returns Ok, applies the
\* pair to the active table and leaves the offset counter, the spawned
\* tasks, the captured segments and the files as they were.
C21_FlushIffAtCapacity ==
    [][ (IsCall /\ call'.op = "write") =>
          /\ Flushed <=> AtCapacity(driver.master)
          /\ ~AtCapacity(driver.master) =>
                /\ ret' = "Ok"
                /\ driver'.offset = driver.offset
                /\ tasks' = tasks /\ segs' = segs /\ sink' = sink
                /\ driver'.master.capacity = driver.master.capacity
                /\ driver'.master.size = driver.master.size + 1
                /\ MemTableRead(driver'.master, call'.key) = Some(call'.value)
                /\ \A k \in Keys \ {call'.key} :
                      MemTableRead(driver'.master, k) = MemTableRead(driver.master, k) ]_vars

\* C21 witness: after a flush whose task has written its file, a write went
\* into the table below capacity and filled it; offset and tasks are those
\* the flush left.
C21_Witness ==
    /\ call.op = "write" /\ ret = "Ok"
    /\ Len(tasks) = 1 /\ tasks[1].status = "ok" /\ driver.offset = 1
    /\ Len(segs) = 1 /\ DOMAIN sink = {SstPath(0)}
    /\ driver.master.size = 2 /\ Len(driver.master.items) = 2

\* C22: the engine does not bound the tasks in flight: whenever every task
\* spawned so far is still pending, one more flush_table can be made (within
\* the bound on calls) and leaves all of them, and its own, pending.  From
\* the fresh engine this reaches k pending tasks after k flushes, for any k.
C22_NoBackpressure ==
    (ncalls < MaxCalls /\ \A i \in DOMAIN tasks : tasks[i].status = "pending") =>
        ENABLED (/\ Flush(TRUE)
                 /\ Len(tasks') = Len(tasks) + 1
                 /\ \A i \in DOMAIN tasks' : tasks'[i].status = "pending")

\* C22 witness: four flushes in a row, four tasks spawned, none has run.
C22_Witness ==
    /\ Len(tasks) = 4 /\ ncalls = 4
    /\ \A i \in DOMAIN tasks : tasks[i].status = "pending"
    /\ sink = <<>>

\* C23: no two tasks have the same file name, so whatever the order in
\* which tasks, writes and flushes interleave, the file of every task that
\* has run without I/O error holds the bytes of the segment captured by the
\* flush that handed out its offset, and the sink holds no other file than
\* those of tasks that created theirs.
C23_OneFilePerOffset ==
    /\ \A i \in DOMAIN tasks : \A j \in DOMAIN tasks :
          i # j => SstPath(tasks[i].offset) # SstPath(tasks[j].offset)
    /\ \A i \in DOMAIN tasks :
          tasks[i].status = "ok" =>
             /\ SstPath(tasks[i].offset) \in DOMAIN sink
             /\ sink[SstPath(tasks[i].offset)] =
                   IntoBytes([entries |-> segs[tasks[i].seg].entries])
    /\ \A p \in DOMAIN sink :
          \E i \in DOMAIN tasks :
             p = SstPath(tasks[i].offset) /\ tasks[i].status \in {"ok", "write_err"}
    /\ (\A i \in DOMAIN tasks : tasks[i].status = "ok") =>
          DOMAIN sink = {SstPath(o) : o \in 0 .. driver.offset - 1}

\* C23 witness: three flushes of different tables; the tasks of the second
\* and third have written their files while the first is still pending.
C23_Witness ==
    /\ Len(tasks) = 3
    /\ tasks[1].status = "pending" /\ tasks[2].status = "ok" /\ tasks[3].status = "ok"
    /\ DOMAIN sink = {SstPath(1), SstPath(2)}
    /\ sink[SstPath(1)] # sink[SstPath(2)]
    /\ sink[SstPath(2)] = tasks[3].bytes

\* The file of the i-th task holds the bytes of the segment it was given.
Written(i) ==
    /\ i \in DOMAIN tasks
    /\ tasks[i].status = "ok"
    /\ SstPath(tasks[i].offset) \in DOMAIN sink
    /\ sink[SstPath(tasks[i].offset)] =
          IntoBytes([entries |-> segs[tasks[i].seg].entries])

\* C24: with tasks that are scheduled fairly and a sink that does not fail,
\* the segment of every task spawned by a flush is eventually in the file
\* named after its offset, whatever the caller does or does not do next.
C24_EventuallyWritten ==
    \A i \in 1 .. MaxCalls : (i \in DOMAIN tasks) ~> Written(i)

\* C24 witness: a write and a flush_table, no call after it, and the
\* segment of one entry is in logos/0.sst.
C24_Witness ==
    /\ ncalls = 2 /\ call.op = "flush" /\ ret = "Ok"
    /\ Written(1) /\ Len(segs[1].entries) = 1
    /\ DOMAIN sink = {SstPath(0)}

\* C25: a write to a MemTable whose size is its capacity returns
\* MemTableFull and leaves items and size as they were, whether or not the
\* key is stored; a write to a table below capacity returns Ok and is
\* applied.
C25_FullTableRejects ==
    [][ call'.op = "write" =>
          IF mt.size = mt.capacity
          THEN ret' = "MemTableFull" /\ mt' = mt
          ELSE /\ ret' = "Ok"
               /\ mt'.size = mt.size + 1
               /\ MemTableRead(mt', call'.key) = Some(call'.value) ]_vars

\* C25 witness: a full table of two keys has refused a write of a key it
\* stores, with another value than the stored one, which it kept.
C25_Witness ==
    /\ call.op = "write" /\ ret = "MemTableFull"
    /\ mt.size = mt.capacity /\ mt.size = 2 /\ Len(mt.items) = 2
    /\ MemTableRead(mt, call.key) # None
    /\ MemTableRead(mt, call.key) # Some(call.value)

\* C26: an insert of an item equal to one stored in the tree returns
\* InsertionError and leaves the tree as it was: the same nodes in the same
\* places with the same stored heights, and the same size.
C26_DuplicateRefused ==
    [][ /\ (avl.root # None /\ call'.value \in NodeItems(avl.root[1])) =>
              ret' = "InsertionError" /\ avl' = avl
        /\ (bst.root # None /\ call'.value \in NodeItems(bst.root[1])) =>
              ret' = "InsertionError" /\ bst' = bst ]_vars

\* C26 witness: an AVLTree of three items, one on each side of the root,
\* has refused an item stored below its root.
C26_Witness ==
    /\ call.op = "insert" /\ ret = "InsertionError" /\ adup
    /\ avl.size = 3 /\ NodeCount(avl.root[1]) = 3 /\ Edges(avl.root[1]) = 1
    /\ ains = {1, 2, 3} /\ call.value = 3

====
